---- MODULE Spec2Model ----
(***************************************************************************)
(* A model of west's main module (src/west/main.py): the Zephyr-base       *)
(* resolver, the external command filter, argument parsing, dispatch and   *)
(* the top-level error / restart handling of main().                       *)
(*                                                                         *)
(* Four specifications share the definitions below:                        *)
(*   SpecZB   set_zephyr_base() applied to every input combination         *)
(*   SpecExt  get_external_commands() applied to every discovered table    *)
(*   Spec     one invocation of main(), from start to process exit         *)
(*   SpecFmt  the top-level help's layout of one thing and its help        *)
(* The configuration, the environment and the argument vector are inputs;  *)
(* in Spec each is drawn where the code first reads it.                    *)
(***************************************************************************)
EXTENDS Integers, Sequences, FiniteSets, TLC

VARIABLES
    zb_in,      \* SpecZB: the inputs of set_zephyr_base()
    zb_out,     \* SpecZB: what set_zephyr_base() did with them
    ext_in,     \* SpecExt: commands.allow_external and what external_commands() does
    ext_out,    \* SpecExt: what get_external_commands() made of them
    pc,         \* Spec: where main() is
    externals,  \* Spec: main()'s externals table
    loading,    \* Spec: how get_external_commands() ended
    argv,       \* Spec: main()'s argument vector
    args,       \* Spec: the namespace parse_known_args() returned
    environ,    \* Spec: os.environ: ZEPHYR_BASE, and its value at start
    resolved,   \* Spec: what set_zephyr_base() resolved and logged
    loaded,     \* Spec: the external specs whose factory() was called
    run,        \* Spec: the run() calls made, in order
    exc,        \* Spec: what args.handler() raised in main()
    proc,       \* Spec: the children main() launched with Popen
    out,        \* Spec: what was printed, in order
    exit_code,  \* Spec: the process's exit code, once pc is "exit"
    help_loop,  \* Spec: the specs help_command_handler() has yet to visit
    fmt_in,     \* SpecFmt: the terminal's columns, a thing and its help
    fmt_out     \* SpecFmt: the rows format_thing_and_help() appended

vars == <<zb_in, zb_out, ext_in, ext_out, pc, externals, loading, argv, args,
          environ, resolved, loaded, run, exc, proc, out, exit_code,
          help_loop, fmt_in, fmt_out>>

zbVars == <<zb_in, zb_out>>
extVars == <<ext_in, ext_out>>
fmtVars == <<fmt_in, fmt_out>>
mainVars == <<pc, externals, loading, argv, args, environ, resolved, loaded,
              run, exc, proc, out, exit_code, help_loop>>

\* Python's None.
None == "None"

(***************************************************************************)
(* Bounds of the model.                                                    *)
(***************************************************************************)
\* Projects that contribute external commands.
MaxProjects == 2
\* External command specs the projects declare, all together.
MaxSpecs == 3
\* Times -v is given.
MaxVerbose == 1
\* Columns of the terminal.
MaxColumns == 80
\* Characters of a thing the top-level help lists.
MaxThingLen == 30
\* Words of a help text.
MaxWords == 3

(***************************************************************************)
(* Paths and os.path.abspath().                                            *)
(***************************************************************************)
\* The working directory is /cwd. "" is the empty string, "zb" a relative
\* path, "/cwd/zb" the absolute path of the same directory.
Paths == {"", "zb", "/cwd/zb"}

abspath(p) ==
    CASE p = "" -> "/cwd"
      [] p = "zb" -> "/cwd/zb"
      [] OTHER -> p

\* The truth value Python gives a string or None.
Truthy(s) == s # None /\ s # ""

(***************************************************************************)
(* set_zephyr_base()                                                       *)
(***************************************************************************)
\* zephyr.base-prefer as the configuration holds it.
PreferValues == {None, "env", "configfile", "neither"}

ZBInputs ==
    [zephyr_base : Paths \cup {None},    \* args.zephyr_base
     zb_env      : Paths \cup {None},    \* os.environ.get('ZEPHYR_BASE')
     zb_prefer   : PreferValues,         \* zephyr.base-prefer
     zb_config   : Paths \cup {None}]    \* zephyr.base

\* main.py:394
PreferEnv(zb_prefer, zb_env) == zb_prefer = "env" /\ zb_env # None

PreferConfigIgnored(zb_prefer, zb_config) == FALSE

\* main.py:397
PreferConfig(zb_prefer, zb_config) == zb_prefer = "configfile" /\ zb_config # None

MismatchAsWritten(zb_env, zb_config) ==
    zb_config # None /\ zb_config # zb_env

\* The warning of main.py:403.
Mismatch(zb_env, zb_config) ==
    zb_config # None /\ abspath(zb_config) # abspath(zb_env)

\* The body of set_zephyr_base(): zb, zb_origin, and whether log.wrn and
\* log.err were called.
ResolveZephyrBase(in) ==
    IF Truthy(in.zephyr_base)
    THEN [zb |-> abspath(in.zephyr_base), zb_origin |-> "command line",
          wrn |-> FALSE, err |-> FALSE]
    ELSE IF PreferEnv(in.zb_prefer, in.zb_env)
    THEN [zb |-> in.zb_env, zb_origin |-> "env", wrn |-> FALSE, err |-> FALSE]
    ELSE IF PreferConfig(in.zb_prefer, in.zb_config)
    THEN [zb |-> in.zb_config, zb_origin |-> "configfile",
          wrn |-> FALSE, err |-> FALSE]
    ELSE IF in.zb_env # None
    THEN [zb |-> in.zb_env, zb_origin |-> "env",
          wrn |-> Mismatch(in.zb_env, in.zb_config), err |-> FALSE]
    ELSE IF in.zb_config # None
    THEN [zb |-> in.zb_config, zb_origin |-> "configfile",
          wrn |-> FALSE, err |-> FALSE]
    ELSE [zb |-> None, zb_origin |-> None, wrn |-> FALSE, err |-> TRUE]

EnvironRaw(zb, old) == IF zb # None THEN zb ELSE old

\* main.py:425: ZEPHYR_BASE in os.environ after set_zephyr_base().
EnvironAfter(zb, old) == IF zb # None THEN abspath(zb) ELSE old

\* Every variable the specification at hand does not use keeps this value.
Idle == [done |-> FALSE]

ZBIdle == zb_in = Idle /\ zb_out = Idle
ExtIdle == ext_in = Idle /\ ext_out = Idle
FmtIdle == fmt_in = Idle /\ fmt_out = Idle
MainIdle ==
    /\ pc = "idle" /\ externals = <<>> /\ loading = Idle /\ argv = Idle
    /\ args = Idle /\ environ = Idle /\ resolved = Idle /\ loaded = {}
    /\ run = <<>> /\ exc = Idle /\ proc = <<>> /\ out = <<>> /\ exit_code = 0
    /\ help_loop = Idle

InitZB ==
    /\ zb_in \in ZBInputs
    /\ zb_out = Idle
    /\ ExtIdle /\ MainIdle /\ FmtIdle

call_set_zephyr_base ==
    /\ zb_in # Idle
    /\ ~zb_out.done
    /\ LET r == ResolveZephyrBase(zb_in)
       IN zb_out' = [done |-> TRUE, zb |-> r.zb, zb_origin |-> r.zb_origin,
                     wrn |-> r.wrn, err |-> r.err,
                     environ |-> EnvironAfter(r.zb, zb_in.zb_env)]
    /\ UNCHANGED <<zb_in, extVars, mainVars, fmtVars>>

NextZB == call_set_zephyr_base

SpecZB == InitZB /\ [][NextZB]_vars

(***************************************************************************)
(* Claims about set_zephyr_base(), checked under SpecZB.                   *)
(***************************************************************************)
\* The precedence table of the six rules: the source that wins and its
\* origin, given which of the three values count as present.
PrecedenceTable(clo, env, cfg, in) ==
    CASE clo -> "CLO"
      [] ~clo /\ in.zb_prefer = "env" /\ env -> "ENV"
      [] ~clo /\ ~(in.zb_prefer = "env" /\ env)
              /\ in.zb_prefer = "configfile" /\ cfg -> "CFG"
      [] ~clo /\ ~(in.zb_prefer = "env" /\ env)
              /\ ~(in.zb_prefer = "configfile" /\ cfg) /\ env -> "ENV"
      [] ~clo /\ ~env /\ ~(in.zb_prefer = "configfile" /\ cfg) /\ cfg -> "CFG"
      [] OTHER -> "unset"

\* Whether set_zephyr_base() chose the value and origin of source `src`:
\* the value as the process environment will hold it.
Chose(src, in, res) ==
    CASE src = "CLO" -> /\ res.zb # None
                        /\ abspath(res.zb) = abspath(in.zephyr_base)
                        /\ res.zb_origin = "command line"
      [] src = "ENV" -> /\ res.zb = in.zb_env
                        /\ res.zb_origin = "env"
      [] src = "CFG" -> /\ res.zb = in.zb_config
                        /\ res.zb_origin = "configfile"
      [] OTHER       -> /\ res.zb = None
                        /\ res.zb_origin = None

Rule4Mismatch(clo_absent, in) ==
    /\ clo_absent
    /\ in.zb_prefer \notin {"env", "configfile"}
    /\ in.zb_env # None
    /\ in.zb_config # None
    /\ abspath(in.zb_config) # abspath(in.zb_env)

PROJECT_COMMANDS ==
    <<"list", "manifest", "diff", "status", "update", "selfupdate", "forall",
      "config">>

\* main.py:49
HIDDEN_COMMANDS == <<"post-init">>

\* main.py:54
BUILTIN_COMMANDS == PROJECT_COMMANDS \o HIDDEN_COMMANDS

Range(s) == {s[i] : i \in DOMAIN s}

\* main.py:59
BUILTIN_COMMAND_NAMES == {"help"} \cup Range(BUILTIN_COMMANDS)

(***************************************************************************)
(* get_external_commands()                                                 *)
(***************************************************************************)
\* Names a project may give an external command.
SpecNames == {"status", "post-init", "help", "ext1", "ext2"}

\* The projects of the specs 1..k, in iteration order.
Assignments(k, n) ==
    {p \in [1..k -> 1..n] : \A j \in 1..k : j > 1 => p[j - 1] <= p[j]}

\* The specs project i declares, in order: [name, project].
SpecsOf(names, p, i) ==
    LET lo == Cardinality({j \in DOMAIN names : p[j] < i})
        hi == Cardinality({j \in DOMAIN names : p[j] <= i})
    IN [d \in 1..(hi - lo) |->
          [name |-> names[lo + d], project |-> i]]

\* What external_commands() may return: an ordered mapping from project to
\* the specs it declares.
Tables ==
    UNION {UNION {{[i \in 1..n |-> SpecsOf(names, p, i)] :
                      names \in [1..k -> SpecNames], p \in Assignments(k, n)} :
                  k \in (IF n = 0 THEN {0} ELSE 0..MaxSpecs)} :
           n \in 0..MaxProjects}

\* main.py:517
ShadowsBuiltin(name) == name \in BUILTIN_COMMAND_NAMES

AlreadyDefinedNever(name, extension_commands) == FALSE

\* main.py:522
AlreadyDefined(name, extension_commands) == name \in extension_commands

\* main.py:516: the loop over one project's specs.
RECURSIVE FilterSpecs(_, _)
FilterSpecs(specs, st) ==
    IF specs = <<>> THEN st
    ELSE LET spec == Head(specs)
         IN IF ShadowsBuiltin(spec.name)
            THEN FilterSpecs(Tail(specs),
                     [st EXCEPT !.wrn = Append(@, [spec |-> spec,
                                                   why |-> "built in"])])
            ELSE IF AlreadyDefined(spec.name, st.extension_commands)
            THEN FilterSpecs(Tail(specs),
                     [st EXCEPT !.wrn = Append(@, [spec |-> spec,
                                                   why |-> "already defined"])])
            ELSE FilterSpecs(Tail(specs),
                     [st EXCEPT !.filtered = Append(@, spec),
                                !.extension_commands = @ \cup {spec.name}])

\* main.py:512: the loop over the projects.
RECURSIVE FilterProjects(_, _, _)
FilterProjects(table, i, st) ==
    IF i > Len(table) THEN st
    ELSE LET r == FilterSpecs(table[i], [st EXCEPT !.filtered = <<>>])
         IN FilterProjects(table, i + 1,
                [r EXCEPT !.externals = Append(@, r.filtered)])

\* main.py:510-532: the table get_external_commands() makes of the one
\* external_commands() returned, and the warnings it logs.
FilterExternals(table) ==
    LET r == FilterProjects(table, 1,
                 [externals |-> <<>>, filtered |-> <<>>,
                  extension_commands |-> {}, wrn |-> <<>>])
    IN [externals |-> r.externals, wrn |-> r.wrn]

\* commands.allow_external as the configuration holds it: a string, or
\* None when the option is not set.
AllowValues == {None, "true", "false", ""}

\* What external_commands() does: it returns a table or raises.
DiscoveryErrors == {"MalformedConfig", "FileNotFoundError"}

Discoveries ==
    {[raises |-> None, table |-> t] : t \in Tables}
    \cup {[raises |-> e, table |-> <<>>] : e \in DiscoveryErrors}

\* main.py:506: config.config.get('commands', 'allow_external',
\* fallback=True), as Python's "not" reads it.
AllowExternal(value) == IF value = None THEN TRUE ELSE Truthy(value)

\* main.py:505-532: get_external_commands().
GetExternalCommands(allow_external, discovery) ==
    IF ~AllowExternal(allow_external)
    THEN [externals |-> <<>>, wrn |-> <<>>, discovered |-> FALSE,
          raised |-> None]
    ELSE IF discovery.raises # None
    THEN [externals |-> <<>>, wrn |-> <<>>, discovered |-> TRUE,
          raised |-> discovery.raises]
    ELSE LET r == FilterExternals(discovery.table)
         IN [externals |-> r.externals, wrn |-> r.wrn, discovered |-> TRUE,
             raised |-> None]

InitExt ==
    /\ ext_in \in [allow_external : AllowValues, discovery : Discoveries]
    /\ ext_out = Idle
    /\ ZBIdle /\ MainIdle /\ FmtIdle

call_get_external_commands ==
    /\ ext_in # Idle
    /\ ~ext_out.done
    /\ LET r == GetExternalCommands(ext_in.allow_external, ext_in.discovery)
       IN ext_out' = [done |-> TRUE, externals |-> r.externals,
                      wrn |-> r.wrn, discovered |-> r.discovered,
                      raised |-> r.raised]
    /\ UNCHANGED <<ext_in, zbVars, mainVars, fmtVars>>

NextExt == call_get_external_commands

SpecExt == InitExt /\ [][NextExt]_vars

(***************************************************************************)
(* Claims about get_external_commands(), checked under SpecExt.            *)
(***************************************************************************)
\* The specs of a table, in project iteration order then declaration order.
RECURSIVE Flatten(_)
Flatten(table) ==
    IF table = <<>> THEN <<>> ELSE Head(table) \o Flatten(Tail(table))

\* Spec d of project p is the first of its name in the table.
FirstOccurrence(table, p, d) ==
    \A q \in 1..p : \A e \in 1..Len(table[q]) :
        (q < p \/ e < d) => table[q][e].name # table[p][d].name

\* The places in project p's declaration of the specs that are to survive.
Survivors(table, p) ==
    {d \in 1..Len(table[p]) :
        /\ table[p][d].name \notin Range(BUILTIN_COMMANDS) \cup {"help"}
        /\ FirstOccurrence(table, p, d)}

\* The m-th smallest element of a set of numbers.
Nth(K, m) == CHOOSE d \in K : Cardinality({e \in K : e <= d}) = m

\* C3: for every table discovery returns, the accepted names are pairwise
\* distinct and disjoint from the built-in, hidden and 'help' names; a spec
\* survives exactly when its name is none of those and it is the first of its
\* name in project then declaration order; every dropped spec produces one
\* warning; and the filter completes on every table.
C3_FilterUnique ==
    (ext_out.done /\ ext_out.discovered /\ ext_out.raised = None) =>
        LET table == ext_in.discovery.table
            res == ext_out.externals
            flat == Flatten(res)
        IN /\ \A i, j \in 1..Len(flat) : i # j => flat[i].name # flat[j].name
           /\ \A i \in 1..Len(flat) :
                flat[i].name \notin Range(BUILTIN_COMMANDS) \cup {"help"}
           /\ Len(res) = Len(table)
           /\ \A p \in 1..Len(table) :
                /\ Len(res[p]) = Cardinality(Survivors(table, p))
                /\ \A m \in 1..Len(res[p]) :
                     res[p][m] = table[p][Nth(Survivors(table, p), m)]
           /\ Len(ext_out.wrn) = Len(Flatten(table)) - Len(flat)
           /\ \A p \in 1..Len(table) : \A d \in 1..Len(table[p]) :
                d \notin Survivors(table, p) =>
                    \E w \in 1..Len(ext_out.wrn) :
                        ext_out.wrn[w].spec = table[p][d]

\* Two projects declare ext1, and the second also declares help: the first
\* ext1 survives, the other two are dropped with a warning each.
C3_Witness ==
    /\ ext_out.done
    /\ ext_in.discovery.raises = None
    /\ ext_in.discovery.table =
           << <<[name |-> "ext1", project |-> 1]>>,
              <<[name |-> "help", project |-> 2],
                [name |-> "ext1", project |-> 2]>> >>
    /\ ext_out.externals = << <<[name |-> "ext1", project |-> 1]>>, <<>> >>
    /\ Len(ext_out.wrn) = 2

\* C9, its first part: when commands.allow_external is set to false,
\* get_external_commands returns an empty table and performs no discovery.
C9_AsStated ==
    (ext_out.done /\ ext_in.allow_external = "false") =>
        /\ ext_out.externals = <<>>
        /\ ~ext_out.discovered

(***************************************************************************)
(* main(): one invocation, from start to process exit.                     *)
(***************************************************************************)
\* Words given where the command goes; "bogus" is no command at all.
CommandWords == {"status", "post-init", "help", "ext1", "ext2", "bogus"}

\* An argument vector: -h, -V, the number of -v and the value of -z before
\* the command, the command word, and the one argument after it: "-h", or
\* for help the name of a command.
Argvs ==
    {a \in [h : BOOLEAN, V : BOOLEAN, v : 0..MaxVerbose,
            z : Paths \cup {None}, command : CommandWords \cup {None},
            arg : CommandWords \cup {None, "-h"}] :
        /\ a.command = None => a.arg = None
        /\ a.command \notin {None, "help"} => a.arg \in {None, "-h"}}

NoSpec == [name |-> None, project |-> 0]
NoHandler == [kind |-> None, name |-> None, spec |-> NoSpec]
NoLoop == [active |-> FALSE, name |-> None, rest |-> <<>>]
NoExc == [kind |-> None, returncode |-> 0, hint |-> None, reason |-> None,
          clause |-> None]

\* The names of the external commands of a table.
ExternalNames(table) == {spec.name : spec \in Range(Flatten(table))}

\* The spec of a table's external command `name`.
SpecNamed(table, name) ==
    CHOOSE spec \in Range(Flatten(table)) : spec.name = name

\* main.py:463,471,478: the handler set_defaults() binds for a command.
HandlerFor(command, table) ==
    CASE command = None -> NoHandler
      [] command = "help" ->
            [kind |-> "help", name |-> "help", spec |-> NoSpec]
      [] command \in Range(BUILTIN_COMMANDS) ->
            [kind |-> "command", name |-> command, spec |-> NoSpec]
      [] OTHER ->
            [kind |-> "ext", name |-> command,
             spec |-> SpecNamed(table, command)]

\* main.py:482: the namespace parse_known_args() returns. The help parser's
\* own 'command' argument (main.py:477) overwrites the subparser's dest.
Namespace(a, table) ==
    [done |-> TRUE, zephyr_base |-> a.z, verbose |-> a.v, version |-> a.V,
     command |-> IF a.command = "help" THEN a.arg ELSE a.command,
     handler |-> HandlerFor(a.command, table)]

\* What is printed.
TopHelp(stream) ==
    [what |-> "top_help", stream |-> stream, about |-> None, text |-> None]
CommandHelp(name) ==
    [what |-> "command_help", stream |-> "stdout", about |-> name,
     text |-> None]
Printed(what, about, text) ==
    [what |-> what, stream |-> "stderr", about |-> about, text |-> text]

\* errno.EIO
EIO == 5

\* What command.run() and spec.factory() may raise.
ReturnCodes == {0, 7, 42}

Exc(kind, returncode, hint, reason) ==
    [kind |-> kind, returncode |-> returncode, hint |-> hint,
     reason |-> reason, clause |-> None]

Raisable ==
    {Exc(k, c, None, None) :
        k \in {"CalledProcessError", "CommandError", "SystemExit"},
        c \in ReturnCodes}
    \cup {Exc("ExtensionCommandError", c, h, None) :
            c \in ReturnCodes, h \in {None, "hint"}}
    \cup {Exc("CommandContextError", c, None, "not a workspace") :
            c \in ReturnCodes}
    \cup {Exc(k, 0, None, None) :
            k \in {"WestUpdated", "KeyboardInterrupt", "Exception"}}

FactoryErrors ==
    {Exc("ExtensionCommandError", c, h, None) :
        c \in ReturnCodes, h \in {None, "hint"}}

\* main.py:27: ExtensionCommandError and CommandContextError are kinds of
\* CommandError.
IsInstance(kind, cls) ==
    \/ kind = cls
    \/ /\ cls = "CommandError"
       /\ kind \in {"ExtensionCommandError", "CommandContextError"}

ExceptClausesGenericFirst ==
    <<"WestUpdated", "KeyboardInterrupt", "CommandError",
      "CalledProcessError", "ExtensionCommandError", "CommandContextError">>

\* main.py:559-602: the except clauses of main(), in order.
ExceptClauses ==
    <<"WestUpdated", "KeyboardInterrupt", "CalledProcessError",
      "ExtensionCommandError", "CommandContextError", "CommandError">>

\* The except clause that handles an exception: the first that matches.
Clause(kind) ==
    LET m == {i \in DOMAIN ExceptClauses : IsInstance(kind, ExceptClauses[i])}
    IN IF m = {} THEN None
       ELSE ExceptClauses[CHOOSE i \in m : \A j \in m : i <= j]

HintAlways(verbose) ==
    IF verbose # 0
    THEN <<Printed("trace", None, None), Printed("hint", None, "west -v")>>
    ELSE <<Printed("hint", None, "west -v")>>

\* main.py:584,593: the trace, or the hint on how to get one.
TraceOrHint(verbose) ==
    IF verbose # 0 THEN <<Printed("trace", None, None)>>
    ELSE <<Printed("hint", None, "west -v")>>

ContextErrorTraces(verbose) ==
    IF verbose # 0 THEN <<Printed("trace", None, None)>> ELSE <<>>

\* main.py:598-601: nothing follows the report of a CommandContextError.
ContextErrorFollowUp(verbose) == <<>>

\* What the except clause prints.
Report(clause, e, a) ==
    CASE clause = "CalledProcessError" ->
            <<Printed("err", None, "command exited with status")>>
            \o TraceOrHint(a.verbose)
      [] clause = "ExtensionCommandError" ->
            <<Printed("err", a.command, e.hint)>> \o TraceOrHint(a.verbose)
      [] clause = "CommandContextError" ->
            <<Printed("err", a.command, e.reason)>>
            \o ContextErrorFollowUp(a.verbose)
      [] clause = None /\ e.kind # "SystemExit" ->
            <<Printed("trace", None, None)>>
      [] OTHER -> <<>>

\* The exit code the except clause gives; an exception no clause handles
\* ends the interpreter.
ExitCodeOf(clause, e) ==
    CASE clause = "KeyboardInterrupt" -> 0
      [] clause = None /\ e.kind # "SystemExit" -> 1
      [] OTHER -> e.returncode

\* What the wait for the child of a restart ends with.
ChildResults ==
    {[how |-> "exited", returncode |-> c] : c \in ReturnCodes}
    \cup {[how |-> "interrupted", returncode |-> 0],
          [how |-> "unknown", returncode |-> 0]}

RestartExitChildIgnored(r) == 0

\* main.py:575-578
RestartExit(r) ==
    CASE r.how = "interrupted" -> 0
      [] r.how = "unknown" -> EIO
      [] OTHER -> r.returncode

\* main.py:573: the argument vector of the child.
PopenArgs(a) == a

dataVars == <<externals, loading, argv, args, environ, resolved>>
handlerVars == <<loaded, run, help_loop>>

\* The process exits with `code`, `o` printed.
Exit(code, o) ==
    /\ pc' = "exit"
    /\ exit_code' = code
    /\ out' = o
    /\ UNCHANGED <<exc, proc>>

\* main() goes on at `p`, `o` printed.
Goto(p, o) ==
    /\ pc' = p
    /\ out' = o
    /\ UNCHANGED <<exc, proc, exit_code>>

\* main.py:557-603: args.handler() raises e, after `o` was printed.
Raise(e, o) ==
    LET c == Clause(e.kind)
    IN /\ exc' = [e EXCEPT !.clause = c]
       /\ IF c = "WestUpdated"
          THEN /\ proc' = Append(proc, [argv |-> PopenArgs(argv),
                                        how |-> "running", returncode |-> 0])
               /\ pc' = "communicate"
               /\ out' = o
               /\ UNCHANGED exit_code
          ELSE /\ pc' = "exit"
               /\ exit_code' = ExitCodeOf(c, e)
               /\ out' = o \o Report(c, e, args)
               /\ UNCHANGED proc

InitMain ==
    /\ pc = "main"
    /\ externals = <<>>
    /\ loading = Idle
    /\ argv = Idle
    /\ args = Idle
    /\ environ \in {[start |-> e, ZEPHYR_BASE |-> e] : e \in Paths \cup {None}}
    /\ resolved = Idle
    /\ loaded = {}
    /\ run = <<>>
    /\ exc = NoExc
    /\ proc = <<>>
    /\ out = <<>>
    /\ exit_code = 0
    /\ help_loop = NoLoop
    /\ ZBIdle /\ ExtIdle /\ FmtIdle

\* main.py:538-549: read the configuration and load the external command
\* specs; MalformedConfig and FileNotFoundError leave the table empty.
main_get_external_commands ==
    /\ pc = "main"
    /\ \E allow_external \in AllowValues, discovery \in Discoveries :
        LET r == GetExternalCommands(allow_external, discovery)
        IN /\ externals' = r.externals
           /\ loading' = [done |-> TRUE, discovered |-> r.discovered,
                          raised |-> r.raised]
    /\ Goto("parse_args", out)
    /\ UNCHANGED <<argv, args, environ, resolved, handlerVars, zbVars,
                   extVars, fmtVars>>

\* main.py:551-553, 457-486: build the parsers, parse the argument vector,
\* and print the version if asked to.
parse_known_args ==
    /\ pc = "parse_args"
    /\ \E a \in Argvs :
        /\ argv' = a
        /\ IF a.h
           THEN \* main.py:75: WestHelpAction
                /\ Exit(0, Append(out, TopHelp("stdout")))
                /\ UNCHANGED args
           ELSE IF a.command # None
                   /\ a.command \notin
                          BUILTIN_COMMAND_NAMES \cup ExternalNames(externals)
           THEN \* argparse: invalid choice
                /\ Exit(2, Append(out, Printed("usage", None, "invalid choice")))
                /\ UNCHANGED args
           ELSE IF a.arg = "-h" /\ a.command \in BUILTIN_COMMAND_NAMES
           THEN \* argparse: the command parser's own -h
                /\ Exit(0, Append(out, CommandHelp(a.command)))
                /\ UNCHANGED args
           ELSE /\ args' = Namespace(a, externals)
                /\ IF a.V
                   THEN Exit(0, Append(out, Printed("version", None, None)))
                   ELSE Goto("set_zephyr_base", out)
    /\ UNCHANGED <<externals, loading, environ, resolved, handlerVars, zbVars,
                   extVars, fmtVars>>

\* main.py:494-496: set the verbosity and resolve ZEPHYR_BASE; zephyr.base
\* and zephyr.base-prefer are read from the configuration.
set_zephyr_base ==
    /\ pc = "set_zephyr_base"
    /\ \E zb_prefer \in PreferValues, zb_config \in Paths \cup {None} :
        LET r == ResolveZephyrBase([zephyr_base |-> args.zephyr_base,
                                    zb_env |-> environ.ZEPHYR_BASE,
                                    zb_prefer |-> zb_prefer,
                                    zb_config |-> zb_config])
        IN /\ environ' = [environ EXCEPT
                            !.ZEPHYR_BASE = EnvironAfter(r.zb, @)]
           /\ resolved' = [done |-> TRUE, zb |-> r.zb, err |-> r.err]
    /\ Goto("check_handler", out)
    /\ UNCHANGED <<externals, loading, argv, args, handlerVars, zbVars,
                   extVars, fmtVars>>

HasHandlerAlways(a) == TRUE

\* main.py:498
HasHandler(a) == a.handler.kind # None

\* main.py:498-502: no handler is a usage error.
check_handler ==
    /\ pc = "check_handler"
    /\ IF HasHandler(args)
       THEN Goto("handler", out)
       ELSE Exit(1, Append(out, TopHelp("stderr")))
    /\ UNCHANGED <<dataVars, handlerVars, zbVars, extVars, fmtVars>>

\* A call of command.run().
RunCall(name) == [command |-> name, ZEPHYR_BASE |-> environ.ZEPHYR_BASE]

\* main.py:297: command_handler(), up to the call of run().
command_handler ==
    /\ pc = "handler"
    /\ args.handler.kind = "command"
    /\ run' = Append(run, RunCall(args.handler.name))
    /\ Goto("run", out)
    /\ UNCHANGED <<dataVars, loaded, help_loop, zbVars, extVars, fmtVars>>

\* main.py:310-331: ext_command_handler(spec, argv), up to the call of
\* run(). The factory may raise; -h or --help in argv makes the command's
\* parser print its help and exit, unless the command's parser has none.
ExtCommandHandler(spec, help_given, loop) ==
    /\ loaded' = loaded \cup {spec}
    /\ \/ /\ \E e \in FactoryErrors : Raise(e, out)
          /\ UNCHANGED <<run, help_loop>>
       \/ /\ help_given
          /\ Exit(0, Append(out, CommandHelp(spec.name)))
          /\ UNCHANGED <<run, help_loop>>
       \/ /\ run' = Append(run, RunCall(spec.name))
          /\ help_loop' = loop
          /\ Goto("run", out)

ext_command_handler ==
    /\ pc = "handler"
    /\ args.handler.kind = "ext"
    /\ ExtCommandHandler(args.handler.spec, argv.arg = "-h", NoLoop)
    /\ UNCHANGED <<dataVars, zbVars, extVars, fmtVars>>

HelpMatchesAny(spec, command_name) == TRUE

\* main.py:352
HelpMatches(spec, command_name) == spec.name = command_name

\* The specs from the first one the loop of main.py:350 does not skip.
RECURSIVE NextMatch(_, _)
NextMatch(specs, command_name) ==
    IF specs = <<>> THEN <<>>
    ELSE IF HelpMatches(Head(specs), command_name) THEN specs
    ELSE NextMatch(Tail(specs), command_name)

\* main.py:350-357: the loop over the external specs, from `specs` on, and
\* the else clause of the loop, which runs when the loop ends.
HelpLoop(specs, command_name) ==
    LET m == NextMatch(specs, command_name)
    IN IF m = <<>>
       THEN /\ Exit(0, Append(out, TopHelp("stdout")))
            /\ help_loop' = NoLoop
            /\ UNCHANGED <<loaded, run>>
       ELSE ExtCommandHandler(Head(m), TRUE,
                [active |-> TRUE, name |-> command_name, rest |-> Tail(m)])

\* main.py:334-357: help_command_handler(), up to a call of run().
help_command_handler ==
    /\ pc = "handler"
    /\ args.handler.kind = "help"
    /\ IF args.command = None
       THEN /\ Exit(0, Append(out, TopHelp("stdout")))
            /\ UNCHANGED handlerVars
       ELSE IF args.command \in BUILTIN_COMMAND_NAMES
       THEN /\ Exit(0, Append(out, CommandHelp(args.command)))
            /\ UNCHANGED handlerVars
       ELSE HelpLoop(Flatten(externals), args.command)
    /\ UNCHANGED <<dataVars, zbVars, extVars, fmtVars>>

\* command.run() returns: main() returns, or the loop of
\* help_command_handler() goes on.
run_returns ==
    /\ pc = "run"
    /\ IF help_loop.active
       THEN HelpLoop(help_loop.rest, help_loop.name)
       ELSE /\ Exit(0, out)
            /\ UNCHANGED handlerVars
    /\ UNCHANGED <<dataVars, zbVars, extVars, fmtVars>>

\* command.run() raises.
run_raises ==
    /\ pc = "run"
    /\ \E e \in Raisable : Raise(e, out)
    /\ UNCHANGED <<dataVars, handlerVars, zbVars, extVars, fmtVars>>

\* main.py:572-578: the wait for the child ends.
communicate ==
    /\ pc = "communicate"
    /\ \E r \in ChildResults :
        /\ proc' = [proc EXCEPT ![Len(proc)].how = r.how,
                                ![Len(proc)].returncode = r.returncode]
        /\ pc' = "exit"
        /\ exit_code' = RestartExit(r)
    /\ UNCHANGED <<dataVars, handlerVars, exc, out, zbVars, extVars, fmtVars>>

Next ==
    \/ main_get_external_commands
    \/ parse_known_args
    \/ set_zephyr_base
    \/ check_handler
    \/ command_handler
    \/ ext_command_handler
    \/ help_command_handler
    \/ run_returns
    \/ run_raises
    \/ communicate

Spec == InitMain /\ [][Next]_vars

(***************************************************************************)
(* Claims about main(), checked under Spec.                                *)
(***************************************************************************)
\* What was printed of the given kinds, in order.
PrintedOf(kinds) == SelectSeq(out, LAMBDA ev : ev.what \in kinds)

Helps == PrintedOf({"top_help", "command_help"})
Reports == PrintedOf({"err", "trace", "hint"})

\* args.handler() was called.
Dispatched ==
    /\ args.done
    /\ CASE args.handler.kind = "command" ->
               Len(run) = 1 /\ run[1].command = args.handler.name
         [] args.handler.kind = "ext" -> args.handler.spec \in loaded
         [] args.handler.kind = "help" -> Helps # <<>> \/ loaded # {}
         [] OTHER -> FALSE

\* C2: whenever a command's run() is called, set_zephyr_base has completed:
\* ZEPHYR_BASE in the environment is the absolute path of the resolved value
\* when run() starts; if no value was resolved, an error was logged,
\* ZEPHYR_BASE is as it was at start, and the selected command is still
\* dispatched.
C2_ResolvedBeforeRun ==
    /\ \A i \in DOMAIN run :
        /\ resolved.done
        /\ resolved.zb # None => run[i].ZEPHYR_BASE = abspath(resolved.zb)
        /\ resolved.zb = None =>
              resolved.err /\ run[i].ZEPHYR_BASE = environ.start
    /\ (resolved.done /\ resolved.zb = None) =>
        /\ resolved.err
        /\ environ.ZEPHYR_BASE = environ.start
        /\ (pc = "exit" /\ HasHandler(args)) => Dispatched

\* run() starts with the absolute path of a relative value from the
\* configuration, the environment having held none.
C2_Witness ==
    /\ Len(run) = 1
    /\ resolved.done
    /\ resolved.zb = "zb"
    /\ environ.start = None
    /\ run[1].ZEPHYR_BASE = "/cwd/zb"

\* C4: an external spec's factory is called only if its command was the one
\* selected or was named as the argument of help; building the parser and
\* printing top-level help (-h, help with no argument, help with an
\* unrecognized name, the no-command usage error) call no factory.
C4_DeferredLoading ==
    /\ \A spec \in loaded :
        /\ args.done
        /\ \/ args.handler.kind = "ext" /\ args.handler.spec = spec
           \/ args.handler.kind = "help" /\ args.command = spec.name
    /\ pc \in {"main", "parse_args", "set_zephyr_base", "check_handler",
               "handler"} => loaded = {}
    /\ (pc = "exit" /\ (argv.h \/ argv.command = None
                        \/ (argv.command = "help"
                            /\ argv.arg \notin ExternalNames(externals))))
        => loaded = {}

\* Two external commands are registered and help is asked about one: only
\* that one's factory is called.
C4_Witness ==
    /\ pc = "exit"
    /\ ExternalNames(externals) = {"ext1", "ext2"}
    /\ args.done
    /\ args.handler.kind = "help"
    /\ args.command = "ext2"
    /\ loaded = {SpecNamed(externals, "ext2")}

\* C5: main ends with the exit code of exactly one classification:
\* interruption exits 0 with no report; CalledProcessError exits with the
\* child's return code; ExtensionCommandError and CommandContextError exit
\* with their declared code, after their own report; any other CommandError
\* exits with its declared code and prints nothing. The two specific kinds
\* never reach the generic branch.
C5_Classification ==
    (pc = "exit" /\ exc.kind \in {"KeyboardInterrupt", "CalledProcessError",
                                  "ExtensionCommandError",
                                  "CommandContextError", "CommandError"}) =>
        /\ exc.clause = exc.kind
        /\ exit_code = IF exc.kind = "KeyboardInterrupt" THEN 0
                       ELSE exc.returncode
        /\ exc.kind \in {"KeyboardInterrupt", "CommandError"} => Reports = <<>>
        /\ exc.kind \in {"CalledProcessError", "ExtensionCommandError",
                         "CommandContextError"} =>
              /\ Reports # <<>>
              /\ Reports[1].what = "err"
        /\ proc = <<>>

\* An external command is malformed, with code 42: main reports it and exits
\* 42.
C5_Witness ==
    /\ pc = "exit"
    /\ exc.kind = "ExtensionCommandError"
    /\ exc.returncode = 42
    /\ exit_code = 42
    /\ Reports # <<>>

\* C6: on WestUpdated main launches one child with the argument vector it was
\* given and waits for it; it exits with the child's exit code, with 0 if the
\* wait is interrupted, with errno.EIO if the child's code is not known; it
\* prints no error report and launches no second child.
C6_Restart ==
    /\ Len(proc) <= 1
    /\ (proc # <<>>) <=> (exc.kind = "WestUpdated")
    /\ exc.kind = "WestUpdated" =>
        /\ proc[1].argv = argv
        /\ Reports = <<>>
        /\ pc \in {"communicate", "exit"}
        /\ pc = "communicate" => proc[1].how = "running"
        /\ pc = "exit" =>
            CASE proc[1].how = "exited" -> exit_code = proc[1].returncode
              [] proc[1].how = "interrupted" -> exit_code = 0
              [] proc[1].how = "unknown" -> exit_code = EIO
              [] OTHER -> FALSE

\* The child of a restart exits 7, and so does the parent.
C6_Witness ==
    /\ pc = "exit"
    /\ exc.kind = "WestUpdated"
    /\ proc[1].how = "exited"
    /\ proc[1].returncode = 7
    /\ exit_code = 7

\* The report of a context refusal: one line with the command name and the
\* reason, and the declared exit code.
ContextErrorReported ==
    /\ exit_code = exc.returncode
    /\ Reports # <<>>
    /\ Reports[1] = Printed("err", args.command, exc.reason)
    /\ args.command # None

\* The trace if verbosity is enabled, the hint otherwise, never both.
TraceXorHint ==
    LET traces == PrintedOf({"trace"})
        hints == PrintedOf({"hint"})
    IN IF args.verbose >= 1
       THEN Len(traces) = 1 /\ hints = <<>>
       ELSE Len(hints) = 1 /\ traces = <<>>

\* C7 as stated: a CommandContextError with reason R and code C exits C after
\* a one-line report with the command name and R; with verbosity 0 no trace
\* is printed and with verbosity >= 1 the full trace is; for every reported
\* failure the hint is shown unless verbosity is enabled, and then the trace
\* instead, never both.
C7_AsStated ==
    (pc = "exit" /\ exc.kind \in {"CalledProcessError", "ExtensionCommandError",
                                  "CommandContextError"}) =>
        /\ exc.kind = "CommandContextError" => ContextErrorReported
        /\ TraceXorHint

\* C7 as amended: a CommandContextError with reason R and code C exits C after
\* a one-line report with the command name and R, and neither a trace nor the
\* hint is printed, whatever the verbosity; for a reported CalledProcessError
\* or ExtensionCommandError the hint is shown unless verbosity is enabled, and
\* then the trace instead, never both.
C7_ContextError ==
    (pc = "exit" /\ exc.kind \in {"CalledProcessError", "ExtensionCommandError",
                                  "CommandContextError"}) =>
        IF exc.kind = "CommandContextError"
        THEN /\ ContextErrorReported
             /\ Len(Reports) = 1
        ELSE TraceXorHint

\* A command refuses its context with code 42 under -v: main prints the one
\* report and exits 42.
C7_Witness ==
    /\ pc = "exit"
    /\ exc.kind = "CommandContextError"
    /\ exc.returncode = 42
    /\ args.verbose = 1
    /\ args.command = "status"
    /\ Reports = <<Printed("err", "status", "not a workspace")>>
    /\ exit_code = 42

\* C13: when main reports a CalledProcessError or an ExtensionCommandError it
\* prints, after the error line and before it exits with the error's code,
\* exactly one follow-up: the trace if and only if the verbosity count is at
\* least 1, and otherwise the hint on how to re-run with tracing; never both
\* and never neither.
C13_ExactlyOneFollowUp ==
    (pc = "exit" /\ exc.kind \in {"CalledProcessError",
                                  "ExtensionCommandError"}) =>
        /\ Len(Reports) = 2
        /\ Reports[1].what = "err"
        /\ Reports[2].what = (IF args.verbose >= 1 THEN "trace" ELSE "hint")
        /\ Len(PrintedOf({"trace"})) + Len(PrintedOf({"hint"})) = 1
        /\ exit_code = exc.returncode

\* A command's subprocess fails with status 7 and no -v was given: main
\* prints the error and the hint, and exits 7.
C13_Witness ==
    /\ pc = "exit"
    /\ exc.kind = "CalledProcessError"
    /\ exc.returncode = 7
    /\ args.verbose = 0
    /\ Len(Reports) = 2
    /\ Reports[2] = Printed("hint", None, "west -v")
    /\ PrintedOf({"trace"}) = <<>>
    /\ exit_code = 7

\* An external command is improperly defined and -v was given: main prints
\* the error and the trace, and no hint.
C13_WitnessVerbose ==
    /\ pc = "exit"
    /\ exc.kind = "ExtensionCommandError"
    /\ args.verbose >= 1
    /\ Len(Reports) = 2
    /\ Reports[2] = Printed("trace", None, None)
    /\ PrintedOf({"hint"}) = <<>>

\* C8: help_command_handler produces exactly one help output: top-level help
\* for no argument; the command's own help for a built-in or hidden name or
\* 'help'; for the name of an accepted external command that one spec is
\* loaded and --help forwarded to it, without top-level help; top-level help
\* for any other name.
C8_AsStated ==
    (pc = "exit" /\ args.done /\ args.handler.kind = "help"
     /\ resolved.done /\ exc.kind = None) =>
        /\ Len(Helps) = 1
        /\ CASE args.command = None -> Helps[1] = TopHelp("stdout")
             [] args.command \in BUILTIN_COMMAND_NAMES ->
                    Helps[1] = CommandHelp(args.command)
             [] args.command \in ExternalNames(externals) ->
                    /\ Helps[1] = CommandHelp(args.command)
                    /\ loaded = {SpecNamed(externals, args.command)}
             [] OTHER -> Helps[1] = TopHelp("stdout")

\* The help handler's outputs when the forwarded --help ends the process in
\* the external command's parser, as main.py:354 takes for granted.
C8_WhenHelpExits ==
    (pc = "exit" /\ args.done /\ args.handler.kind = "help"
     /\ resolved.done /\ exc.kind = None /\ run = <<>>) =>
        /\ Len(Helps) = 1
        /\ args.command \in ExternalNames(externals) =>
              Helps[1] = CommandHelp(args.command)

\* C9, its second part: when discovery raises MalformedConfig or
\* FileNotFoundError, main goes on with an empty table and still dispatches
\* the command the arguments select.
C9_DiscoveryFailureTolerated ==
    (loading.done /\ loading.raised # None) =>
        /\ loading.raised \in DiscoveryErrors
        /\ externals = <<>>
        /\ pc # "main"
        /\ (pc = "exit" /\ resolved.done /\ HasHandler(args)) => Dispatched

\* C10 as stated: for every argument vector, after parsing either parse_args
\* has returned with a handler bound, or the process has exited with the
\* usage error: top-level help on the diagnostic stream and exit code 1.
C10_AsStated ==
    /\ pc \in {"handler", "run", "communicate"} => HasHandler(args)
    /\ (pc = "exit" /\ ~Dispatched) =>
        /\ exit_code = 1
        /\ out = <<TopHelp("stderr")>>

\* C10 as amended: for every argument vector that parse_args parses to its
\* handler check (it exits 0 before that on -h/--help, on -h after a built-in
\* command and on -V, and argparse exits 2 on a command it does not know),
\* either parse_args returns with a handler bound, or the process exits with
\* the usage error: top-level help on the diagnostic stream and exit code 1.
\* parse_args never returns without a bound handler.
C10_HandlerOrUsage ==
    /\ pc \in {"handler", "run", "communicate"} =>
        args.done /\ args.handler.kind \in {"command", "ext", "help"}
    /\ (pc = "exit" /\ resolved.done) =>
        IF args.handler.kind = None
        THEN /\ exit_code = 1
             /\ out = <<TopHelp("stderr")>>
             /\ run = <<>> /\ loaded = {}
        ELSE Dispatched
    /\ (pc = "exit" /\ ~resolved.done) =>
        \/ argv.h /\ exit_code = 0 /\ out = <<TopHelp("stdout")>>
        \/ ~argv.h /\ args.done /\ args.version /\ exit_code = 0
        \/ ~argv.h /\ ~args.done /\ argv.arg = "-h" /\ exit_code = 0
           /\ out = <<CommandHelp(argv.command)>>
        \/ ~argv.h /\ ~args.done /\ exit_code = 2
           /\ argv.command \notin
                  BUILTIN_COMMAND_NAMES \cup ExternalNames(externals)

\* No command is given: top-level help on the diagnostic stream, exit code 1.
C10_Witness ==
    /\ pc = "exit"
    /\ resolved.done
    /\ args.handler.kind = None
    /\ argv.command = None
    /\ exit_code = 1
    /\ out = <<TopHelp("stderr")>>

(***************************************************************************)
(* The top-level help: format_help() and format_thing_and_help().          *)
(***************************************************************************)
\* A string is the sequence of its characters: " " a space, "t" a character
\* of a thing, "h" a character of a word of help.
Spaces(n) == [i \in 1..n |-> " "]
Chars(c, n) == [i \in 1..n |-> c]

Min(a, b) == IF a < b THEN a ELSE b
Max(a, b) == IF a > b THEN a ELSE b

\* s[n:]
Slice(s, n) == SubSeq(s, n + 1, Len(s))

\* main.py:123: the width of the help, from the terminal's columns.
Width(columns) == Min(75, Max(columns - 2, 30))

\* main.py:205
HelpOffset(width) == Min(Max(10, width - 20), 24)

\* A help text is absent (None) or a string; the string is given by the
\* lengths of its words, which is all that ' '.join(help.split()) keeps of
\* its whitespace. No word is longer than the narrowest room the help has
\* (20 columns), so textwrap never breaks a word.
WordLengths == {3, 12}

RECURSIVE WordSeqs(_)
WordSeqs(n) ==
    IF n = 0 THEN {<<>>}
    ELSE LET shorter == WordSeqs(n - 1)
         IN shorter \cup {Append(ws, l) : ws \in {x \in shorter : Len(x) = n - 1},
                                          l \in WordLengths}

HelpTexts ==
    {[given |-> FALSE, words |-> <<>>]}
    \cup {[given |-> TRUE, words |-> ws] : ws \in WordSeqs(MaxWords)}

\* The things format_west_optional, format_command and format_external_spec
\* pass: two spaces, then options or a name and a colon.
ThingLengths == 3..MaxThingLen

FmtInputs ==
    [columns : 1..MaxColumns,
     thing   : {Chars("t", n) : n \in ThingLengths},
     help    : HelpTexts]

\* textwrap.wrap(): the words of each line, filled greedily: a word joins the
\* line when it fits, after a space, in the room the indent leaves.
RECURSIVE WrapWords(_, _, _)
WrapWords(words, cur, room) ==
    IF words = <<>>
    THEN IF cur = <<>> THEN <<>> ELSE <<cur>>
    ELSE LET w == Head(words)
             RECURSIVE LineLen(_)
             LineLen(l) == IF l = <<>> THEN 0
                           ELSE IF Len(l) = 1 THEN l[1]
                           ELSE l[1] + 1 + LineLen(Tail(l))
         IN IF cur = <<>>
            THEN WrapWords(Tail(words), <<w>>, room)
            ELSE IF LineLen(cur) + 1 + w <= room
            THEN WrapWords(Tail(words), Append(cur, w), room)
            ELSE <<cur>> \o WrapWords(words, <<>>, room)

\* The characters of a line's words, a space between two.
RECURSIVE JoinWords(_)
JoinWords(l) ==
    IF l = <<>> THEN <<>>
    ELSE IF Len(l) = 1 THEN Chars("h", l[1])
    ELSE Chars("h", l[1]) \o <<" ">> \o JoinWords(Tail(l))

\* main.py:217: textwrap.wrap(help, width=width, initial_indent=help_indent,
\* subsequent_indent=help_indent). No line for a text without a word.
Wrap(words, width, help_indent) ==
    LET lines == WrapWords(words, <<>>, width - Len(help_indent))
    IN [i \in 1..Len(lines) |-> help_indent \o JoinWords(lines[i])]

OwnRowStrict(thinglen, help_offset) == thinglen >= help_offset - 1

\* main.py:221: the thing, with room for a space, does not fit before the
\* help.
OwnRow(thinglen, help_offset) == thinglen > help_offset - 1

\* main.py:202-233: the rows format_thing_and_help() appends, or the
\* IndexError of main.py:232 when there is no help line to pack.
FormatThingAndHelp(thing, help, width) ==
    LET help_offset == HelpOffset(width)
        help_indent == Spaces(help_offset)
        thinglen == Len(thing)
        help_lines == Wrap(help.words, width, help_indent)
    IN IF ~help.given
       THEN [rows |-> <<thing>>, raised |-> FALSE]
       ELSE IF OwnRow(thinglen, help_offset)
       THEN [rows |-> <<thing>> \o help_lines, raised |-> FALSE]
       ELSE IF help_lines = <<>>
       THEN [rows |-> <<>>, raised |-> TRUE]
       ELSE [rows |-> <<thing \o Slice(help_lines[1], thinglen)>>
                      \o Tail(help_lines),
             raised |-> FALSE]

InitFmt ==
    /\ fmt_in \in FmtInputs
    /\ fmt_out = Idle
    /\ ZBIdle /\ ExtIdle /\ MainIdle

\* format_help(top_level=True) formats one thing and its help.
call_format_thing_and_help ==
    /\ fmt_in # Idle
    /\ ~fmt_out.done
    /\ LET width == Width(fmt_in.columns)
           r == FormatThingAndHelp(fmt_in.thing, fmt_in.help, width)
       IN fmt_out' = [done |-> TRUE, width |-> width,
                      help_offset |-> HelpOffset(width),
                      rows |-> r.rows, raised |-> r.raised]
    /\ UNCHANGED <<fmt_in, zbVars, extVars, mainVars>>

NextFmt == call_format_thing_and_help

SpecFmt == InitFmt /\ [][NextFmt]_vars

(***************************************************************************)
(* Claims about the help's layout, checked under SpecFmt.                  *)
(***************************************************************************)
Clamp(x, lo, hi) == IF x < lo THEN lo ELSE IF x > hi THEN hi ELSE x

\* The help's text starts on the row at the offset, after spaces only.
TextAt(row, from, offset) ==
    /\ Len(row) > offset
    /\ \A i \in (from + 1)..offset : row[i] = " "
    /\ row[offset + 1] = "h"

\* The rows that hold the help's text hold all its words, in order.
SameWords(rows, offset, words) ==
    LET RECURSIVE Text(_)
        Text(rs) == IF rs = <<>> THEN <<>>
                    ELSE IF Len(rs) = 1 THEN Slice(rs[1], offset)
                    ELSE Slice(rs[1], offset) \o <<" ">> \o Text(Tail(rs))
    IN Text(rows) = JoinWords(words)

\* The thing and the first line of help share the first row; the later lines
\* are left-padded to the offset.
PackedLayout ==
    LET rows == fmt_out.rows
        thinglen == Len(fmt_in.thing)
    IN /\ ~fmt_out.raised
       /\ rows # <<>>
       /\ SubSeq(rows[1], 1, thinglen) = fmt_in.thing
       /\ \A i \in 1..Len(rows) :
            TextAt(rows[i], IF i = 1 THEN thinglen ELSE 0, fmt_out.help_offset)
       /\ SameWords(rows, fmt_out.help_offset, fmt_in.help.words)

\* The thing is alone on the first row; every line of help is on a row of
\* its own, indented to the offset.
OwnRowLayout ==
    LET rows == fmt_out.rows
    IN /\ ~fmt_out.raised
       /\ Len(rows) >= 2
       /\ rows[1] = fmt_in.thing
       /\ \A i \in 2..Len(rows) : TextAt(rows[i], 0, fmt_out.help_offset)
       /\ SameWords(Tail(rows), fmt_out.help_offset, fmt_in.help.words)

\* The width and the help offset are the clamped values.
Clamped ==
    /\ fmt_out.width = Clamp(fmt_in.columns - 2, 30, 75)
    /\ fmt_out.help_offset = Clamp(fmt_out.width - 20, 10, 24)

HasWords == fmt_in.help.given /\ fmt_in.help.words # <<>>

\* C11 as stated: for every terminal width, width = clamp(columns - 2, 30, 75)
\* and help_offset = clamp(width - 20, 10, 24); for every thing length L and
\* non-empty help the first help line is packed on the thing's row exactly
\* when L < help_offset - 1, and otherwise the thing is alone on its row with
\* all help lines indented to help_offset.
C11_AsStated ==
    (fmt_out.done /\ HasWords) =>
        /\ Clamped
        /\ IF Len(fmt_in.thing) < fmt_out.help_offset - 1
           THEN PackedLayout
           ELSE OwnRowLayout

\* C11 as amended: for every terminal width, width = clamp(columns - 2, 30,
\* 75) and help_offset = clamp(width - 20, 10, 24); for every thing length L
\* and help with at least one word the first help line is packed on the
\* thing's row, later lines left-padded to help_offset, exactly when
\* L <= help_offset - 1 (a thing of length help_offset - 1 is packed, one
\* space before its help), and otherwise the thing is alone on its row with
\* all help lines indented to help_offset. For width 75 the offset is 24, a
\* thing of length 10 is packed and a thing of length 30 is on its own row.
C11_HelpLayout ==
    (fmt_out.done /\ HasWords) =>
        /\ Clamped
        /\ IF Len(fmt_in.thing) <= fmt_out.help_offset - 1
           THEN PackedLayout /\ ~OwnRowLayout
           ELSE OwnRowLayout /\ ~PackedLayout
        /\ fmt_out.width = 75 =>
            /\ fmt_out.help_offset = 24
            /\ Len(fmt_in.thing) = 10 => PackedLayout
            /\ Len(fmt_in.thing) = 30 => OwnRowLayout

\* On a terminal of 50 columns the width is 48 and the offset 24: a thing of
\* 23 characters, one less than the offset, shares its row with the first of
\* three lines of help, one space between them.
C11_Witness ==
    /\ fmt_out.done
    /\ fmt_in.columns = 50
    /\ fmt_out.width = 48
    /\ fmt_out.help_offset = 24
    /\ Len(fmt_in.thing) = 23
    /\ fmt_in.help.words = <<12, 12, 12>>
    /\ PackedLayout
    /\ fmt_out.rows =
           <<fmt_in.thing \o <<" ">> \o Chars("h", 12),
             Spaces(24) \o Chars("h", 12),
             Spaces(24) \o Chars("h", 12)>>

====
